---- MODULE Spec2Model ----
(***************************************************************************)
(* Multipart upload client of the TOS Go SDK (tos/multipart.go).           *)
(*                                                                         *)
(* One caller issues calls one after another against one upload session:   *)
(* UploadPartV2, CompleteMultipartUploadV2, Bucket.CompleteMultipartUpload, *)
(* ClientV2.AbortMultipartUpload and Bucket.AbortMultipartUpload.  A call   *)
(* runs its pre-flight code in one step, then the request builder's retry  *)
(* loop performs network attempts one step each, then the call's tail code *)
(* turns the response into the value returned to the caller.               *)
(*                                                                         *)
(* Spec is that caller.  SpecFile is a caller of UploadPartFromFile, with  *)
(* the file handles it opens counted.  SpecConc is two UploadPartV2 calls  *)
(* for two parts running at the same time, interleaved step by step.       *)
(***************************************************************************)
EXTENDS Integers, Sequences, FiniteSets, TLC

\* ------------------------------------------------------------------ bounds
FileLen == 2          \* bytes held by a byte source
MaxAttempts == 3      \* attempt budget of the retry loop (caller-configured)
MaxParts == 3         \* longest descriptor list handed to a completion
MaxPartNumber == 3    \* largest part number of a descriptor
MaxOpenFiles == 2     \* file handles counted before the counter stops

\* ------------------------------------------------------------- input sets
Data == [i \in 1..FileLen |-> i]                 \* the bytes of a source
ETags == {"t1", "t2"}
UploadIDs == {"", "u1"}
UploadPartNumbers == {-1, 0, 1, 2}
ContentLengths == (-1)..FileLen
ContentKinds == {"nil", "seeker", "reader", "pipe"}
   \* nil:    no content
   \* seeker: implements io.Seeker and seeks (bytes.Reader, regular file)
   \* reader: plain io.Reader, no Seek method
   \* pipe:   implements io.Seeker but every Seek fails (os.File on a pipe)

UploadPartV2Inputs ==
    [nil : {FALSE}, namesValid : BOOLEAN, PartNumber : UploadPartNumbers,
     UploadID : UploadIDs, ContentLength : ContentLengths, Content : ContentKinds,
     pos0 : 0..FileLen]

Descriptors == [PartNumber : 1..MaxPartNumber, ETag : ETags]

RECURSIVE SeqsUpTo(_, _)
SeqsUpTo(S, n) ==
    IF n = 0 THEN {<<>>}
    ELSE LET shorter == SeqsUpTo(S, n - 1)
         IN  shorter \cup {Append(s, x) : s \in {t \in shorter : Len(t) = n - 1}, x \in S}

PartLists == SeqsUpTo(Descriptors, MaxParts)

FailureKinds == {"ServerFault", "Ambiguous", "Rejected", "NotFound", "Cancelled"}
   \* ServerFault: 5xx answer or broken connection
   \* Ambiguous:   status that only the broad classifier retries
   \* Rejected:    4xx answer that no classifier retries
   \* NotFound:    the session no longer exists on the server
   \* Cancelled:   the caller's context was cancelled during the attempt

Min(a, b) == IF a < b THEN a ELSE b

\* ---------------------------------------------------------------- state
VARIABLES
    session,     \* the upload session on the server: active, aborted, completed
    enableCRC,   \* cli.enableCRC
    op,          \* the call in progress
    pc,          \* idle, request (in the retry loop), responded, done
    input,       \* the UploadPartV2 input
    parts,       \* the completion's input descriptors
    pos,         \* read position of the byte source
    checker,     \* the hash.Hash64 of the call
    start,       \* position captured for the reset hook
    req,         \* the request as built: hook, classifier, lengths, body
    nAttempts,   \* network attempts made by the call
    first,       \* first network attempt of the call
    last,        \* latest network attempt of the call
    res,         \* what the retry loop returned
    out,         \* what the call returned
    ctxDone,     \* 0, or the attempt during which the context was cancelled
    openFiles,   \* handles opened by UploadPartFromFile and not closed
    viaFile,     \* the UploadPartV2 in progress was called by UploadPartFromFile
    conc         \* concurrent UploadPartV2 invocations: their state and frames

vars == <<session, enableCRC, op, pc, input, parts, pos, checker, start, req,
          nAttempts, first, last, res, out, ctxDone, openFiles, viaFile, conc>>

fileVars == <<openFiles, viaFile>>

NoInput == [nil |-> FALSE, namesValid |-> TRUE, PartNumber |-> 0, UploadID |-> "",
            ContentLength |-> 0, Content |-> "nil", pos0 |-> 0]
NilInput == [NoInput EXCEPT !.nil = TRUE]      \* input == nil: no field to read
NilChecker == [nil |-> TRUE, sum |-> 0]
NoReq == [onRetry |-> FALSE, classifier |-> "none", declaredLength |-> 0,
          contentLength |-> 0, content |-> "nil", manifest |-> <<>>]
NoAttempt == [from |-> 0, body |-> <<>>, read |-> 0, outcome |-> "none"]
NoHeader == [present |-> FALSE, value |-> 0]
NoRes == [err |-> "none", ETag |-> "", crc |-> NoHeader]
NoOut == [err |-> "none", PartNumber |-> 0, ETag |-> "", HashCrc64ecma |-> 0]

\* ------------------------------------------------- checksum accumulator
\* NewCRC(DefaultCrcTable(), 0): a fresh accumulator, seeded with 0.
NewCRC == [nil |-> FALSE, sum |-> 0]

\* hash.Hash64.Write of one byte.  CRC64 is stood in for by a digest that is
\* injective on the byte strings of the model (digits 1..FileLen in base
\* FileLen + 1), so two sums are equal exactly when the bytes fed are equal.
CrcUpdate(sum, b) == sum * (FileLen + 1) + b

RECURSIVE CrcWrite(_, _)
CrcWrite(sum, bytes) ==
    IF bytes = <<>> THEN sum
    ELSE CrcWrite(CrcUpdate(sum, Head(bytes)), Tail(bytes))

\* The wrapped reader feeds every byte it yields into the accumulator, if any.
Feed(c, bytes) == IF c.nil THEN c ELSE [c EXCEPT !.sum = CrcWrite(c.sum, bytes)]

\* Seek on the wrapped reader: a repositioned stream restarts its checksum.
SeekChecker(c) == IF c.nil THEN c ELSE NewCRC

\* strconv.ParseUint of the checksum header; an absent header is "" and
\* parses to 0 with an error the callers discard.
ParseUint(h) == IF h.present THEN h.value ELSE 0

\* checkCrc64(res, checker)
checkCrc64(r, c) ==
    IF c.nil \/ ~r.crc.present THEN "nil"
    ELSE IF c.sum # ParseUint(r.crc) THEN "CrcCheckFailed"
    ELSE "nil"

\* ------------------------------------------------------------ byte source
IsSeeker(kind) == kind \in {"seeker", "pipe"}

\* tryResolveLength(content): the unread length of a sized source, else -1.
tryResolveLength(kind, p) == IF kind = "seeker" THEN FileLen - p ELSE -1

\* Bytes the transport takes from the body in a complete attempt: the declared
\* content length when it is positive, everything up to EOF otherwise.
ToSend(kind, declared, p) ==
    IF kind = "nil" THEN 0
    ELSE IF declared > 0 THEN Min(declared, FileLen - p)
    ELSE FileLen - p

BodyAt(kind, declared, p) == SubSeq(Data, p + 1, p + ToSend(kind, declared, p))

\* ------------------------------------------------------------ classifiers
\* classifier.Classify(err): is another attempt allowed after this failure?
Classify(classifier, kind) ==
    CASE classifier = "StatusCodeClassifier" -> kind \in {"ServerFault", "Ambiguous"}
      [] classifier = "ServerErrorClassifier" -> kind = "ServerFault"
      [] OTHER -> FALSE

\* ------------------------------------------------------------ UploadPartV2
\* isValidNames(input.Bucket, input.Key)
isValidNames(in) == IF in.namesValid THEN "nil" ELSE "InvalidName"

\* Variant: the upload ID is not checked.
InputInvalidPartNumberOnly(in) == in.PartNumber = 0

\* input == nil || input.PartNumber == 0 || input.UploadID == ""
InputInvalid(in) == in.nil \/ in.PartNumber = 0 \/ in.UploadID = ""

\* Variant: the fallback to the narrow classifier is missing.
SelectClassifierAlwaysBroad(onRetry) == "StatusCodeClassifier"

\* classifier = StatusCodeClassifier{}; if onRetry == nil { ServerErrorClassifier{} }
SelectClassifier(onRetry) ==
    IF onRetry THEN "StatusCodeClassifier" ELSE "ServerErrorClassifier"

\* Variant: the hook rewinds to the beginning of the source, not to start.
OnRetrySeekToZero(st, p) == 0

\* onRetry: seeker.Seek(start, io.SeekStart); the position the source is left at.
OnRetrySeek(st, p) == st

\* Variant: the accumulator is created whatever cli.enableCRC says.
MakeCheckerAlways(crc) == NewCRC

\* var checker hash.Hash64; if cli.enableCRC { checker = NewCRC(...) }
MakeChecker(crc) == IF crc THEN NewCRC ELSE NilChecker

Failed(e) == [NoOut EXCEPT !.err = e]

UploadPartV2(in) ==
    /\ pc = "idle"
    /\ op' = "UploadPartV2"
    /\ input' = in
    /\ IF in.nil
         THEN \* input.Bucket at line 128 reads through the nil pointer: the
              \* goroutine panics and the call returns nothing.
              /\ out' = Failed("NilPointerPanic")
              /\ pc' = "panicked"
              /\ UNCHANGED <<pos, checker, start, req>>
       ELSE IF isValidNames(in) # "nil"
         THEN /\ out' = Failed(isValidNames(in))
              /\ pc' = "done"
              /\ UNCHANGED <<pos, checker, start, req>>
       ELSE IF InputInvalid(in)
         THEN /\ out' = Failed("InputInvalidClientError")
              /\ pc' = "done"
              /\ UNCHANGED <<pos, checker, start, req>>
       ELSE LET contentLength == IF in.ContentLength = 0
                                   THEN tryResolveLength(in.Content, in.pos0)
                                   ELSE in.ContentLength
                chk == MakeChecker(enableCRC)
            IN  IF in.Content = "pipe"
                  THEN \* seeker.Seek(0, io.SeekCurrent) fails
                       /\ out' = Failed("SeekError")
                       /\ pc' = "done"
                       /\ pos' = in.pos0
                       /\ checker' = chk
                       /\ UNCHANGED <<start, req>>
                ELSE /\ pos' = in.pos0
                     /\ checker' = IF IsSeeker(in.Content) THEN SeekChecker(chk) ELSE chk
                     /\ start' = IF IsSeeker(in.Content) THEN in.pos0 ELSE 0
                     /\ req' = [onRetry |-> IsSeeker(in.Content),
                                classifier |-> SelectClassifier(IsSeeker(in.Content)),
                                declaredLength |-> in.ContentLength,
                                contentLength |-> contentLength,
                                content |-> in.Content,
                                manifest |-> <<>>]
                     /\ out' = NoOut
                     /\ pc' = "request"
    /\ UNCHANGED <<session, enableCRC, parts, nAttempts, first, last, res, ctxDone>>

\* Variant: the result of checkCrc64 is dropped.
UploadPartV2ResultUnchecked(in, r, c) ==
    IF r.err # "nil" THEN Failed(r.err)
    ELSE [err |-> "nil", PartNumber |-> in.PartNumber, ETag |-> r.ETag,
          HashCrc64ecma |-> ParseUint(r.crc)]

\* Variant: every error of the request is returned as one generic failure.
UploadPartV2ResultGenericError(in, r, c) ==
    IF r.err # "nil" THEN Failed("ServerFault")
    ELSE IF checkCrc64(r, c) # "nil" THEN Failed(checkCrc64(r, c))
    ELSE [err |-> "nil", PartNumber |-> in.PartNumber, ETag |-> r.ETag,
          HashCrc64ecma |-> ParseUint(r.crc)]

\* Variant: the checksum header is not copied into the output.
UploadPartV2ResultNoChecksum(in, r, c) ==
    IF r.err # "nil" THEN Failed(r.err)
    ELSE IF checkCrc64(r, c) # "nil" THEN Failed(checkCrc64(r, c))
    ELSE [err |-> "nil", PartNumber |-> in.PartNumber, ETag |-> r.ETag,
          HashCrc64ecma |-> 0]

\* Lines 177-192: the value UploadPartV2 returns for what the retry loop gave.
UploadPartV2Result(in, r, c) ==
    IF r.err # "nil" THEN Failed(r.err)
    ELSE IF checkCrc64(r, c) # "nil" THEN Failed(checkCrc64(r, c))
    ELSE [err |-> "nil", PartNumber |-> in.PartNumber, ETag |-> r.ETag,
          HashCrc64ecma |-> ParseUint(r.crc)]

\* Variant: a checksum mismatch sends the call back into the retry loop.
UploadPartV2ReturnRetriesMismatch ==
    /\ pc = "responded"
    /\ op = "UploadPartV2"
    /\ out' = UploadPartV2Result(input, res, checker)
    /\ pc' = IF out'.err = "CrcCheckFailed" THEN "request" ELSE "done"
    /\ UNCHANGED <<session, enableCRC, op, input, parts, pos, checker, start, req,
                   nAttempts, first, last, res, ctxDone>>

UploadPartV2Return ==
    /\ pc = "responded"
    /\ op = "UploadPartV2"
    /\ out' = UploadPartV2Result(input, res, checker)
    /\ pc' = "done"
    /\ UNCHANGED <<session, enableCRC, op, input, parts, pos, checker, start, req,
                   nAttempts, first, last, res, ctxDone>>

\* ------------------------------------------------------ the retry loop
\* requestBuilder.Request: one network attempt per step.  After a failure the
\* classifier decides on another attempt; before a retry the hook, if any, runs.
Attempted(a) ==
    /\ nAttempts' = nAttempts + 1
    /\ last' = a
    /\ first' = IF nAttempts = 0 THEN a ELSE first

AfterFailure(kind, k) ==
    LET retry == Classify(req.classifier, kind) /\ nAttempts + 1 < MaxAttempts
    IN  /\ ctxDone' = IF kind = "Cancelled" THEN nAttempts + 1 ELSE ctxDone
        /\ IF retry
             THEN /\ pc' = "request"
                  /\ res' = res
                  /\ IF req.onRetry
                       THEN /\ pos' = OnRetrySeek(start, pos + k)
                            /\ checker' = SeekChecker(checker)
                       ELSE /\ pos' = pos + k
                            /\ checker' = Feed(checker, SubSeq(Data, pos + 1, pos + k))
             ELSE /\ pc' = "responded"
                  /\ res' = [NoRes EXCEPT !.err = kind]
                  /\ pos' = pos + k
                  /\ checker' = Feed(checker, SubSeq(Data, pos + 1, pos + k))

UploadAttemptSucceeds(etag, hdr) ==
    /\ pc = "request"
    /\ op = "UploadPartV2"
    /\ session = "active"
    /\ req.declaredLength <= FileLen - pos
    /\ req.content = "nil" => req.declaredLength <= 0
    /\ LET body == BodyAt(req.content, req.declaredLength, pos)
           sum == CrcWrite(0, body)
       IN  /\ Attempted([from |-> pos, body |-> body, read |-> Len(body), outcome |-> "ok"])
           /\ pos' = pos + Len(body)
           /\ checker' = Feed(checker, body)
           /\ res' = [err |-> "nil", ETag |-> etag,
                      crc |-> CASE hdr = "absent" -> NoHeader
                                [] hdr = "honest" -> [present |-> TRUE, value |-> sum]
                                [] hdr = "corrupt" -> [present |-> TRUE, value |-> sum + 1]]
    /\ pc' = "responded"
    /\ UNCHANGED <<session, enableCRC, op, input, parts, start, req, out, ctxDone>>

UploadAttemptFails(kind, k) ==
    /\ pc = "request"
    /\ op = "UploadPartV2"
    /\ kind = "NotFound" <=> session # "active"
    /\ k <= ToSend(req.content, req.declaredLength, pos)
    /\ Attempted([from |-> pos, body |-> BodyAt(req.content, req.declaredLength, pos),
                  read |-> k, outcome |-> kind])
    /\ AfterFailure(kind, k)
    /\ UNCHANGED <<session, enableCRC, op, input, parts, start, req, out>>

\* ------------------------------------------------- completion assembler
\* UploadedPartV2.uploadedPart(): the wire descriptor of a part.
uploadedPart(p) == [PartNumber |-> p.PartNumber, ETag |-> p.ETag]

\* uploadedParts.Less(i, j)
Less(a, b) == a.PartNumber < b.PartNumber

\* sort.Sort on a slice of at most 12 elements is an insertion sort: each
\* element moves left while it is Less than its left neighbour.
RECURSIVE Insert(_, _)
Insert(s, x) ==
    IF s # <<>> /\ Less(x, s[Len(s)])
      THEN Append(Insert(SubSeq(s, 1, Len(s) - 1), x), s[Len(s)])
    ELSE Append(s, x)

RECURSIVE SortFrom(_, _, _)
SortFrom(done, s, i) ==
    IF i > Len(s) THEN done ELSE SortFrom(Insert(done, s[i]), s, i + 1)

sortSort(s) == SortFrom(<<>>, s, 1)

\* for _, p := range input.Parts { append(multipart.Parts, p.uploadedPart()) }
AppendParts(ps) == [i \in 1..Len(ps) |-> uploadedPart(ps[i])]

\* Variants of the manifest assembly, each a slip the claims below must catch:
\* no sort.Sort call, a descending Less, a loop that skips repeated part numbers.
PartsToCompleteV2Unsorted(ps) == AppendParts(ps)

PartsToCompleteV2Descending(ps) ==
    LET s == sortSort(AppendParts(ps)) IN [i \in 1..Len(s) |-> s[Len(s) + 1 - i]]

PartsToCompleteV2Deduped(ps) ==
    LET s == sortSort(AppendParts(ps))
    IN  SelectSeq([i \in 1..Len(s) |->
                     IF i > 1 /\ s[i].PartNumber = s[i - 1].PartNumber
                       THEN [PartNumber |-> 0, ETag |-> ""] ELSE s[i]],
                  LAMBDA d : d.PartNumber # 0)

\* Lines 259-265 of CompleteMultipartUploadV2: the manifest that is marshalled.
PartsToCompleteV2(ps) == sortSort(AppendParts(ps))

\* Lines 227-233 of Bucket.CompleteMultipartUpload.
PartsToComplete(ps) == sortSort(AppendParts(ps))

ControlCall(name, valid, classifier, ps, manifest) ==
    /\ pc = "idle"
    /\ op' = name
    /\ parts' = ps
    /\ IF ~valid
         THEN /\ out' = Failed("InvalidName")
              /\ pc' = "done"
              /\ req' = req
         ELSE /\ req' = [NoReq EXCEPT !.classifier = classifier, !.manifest = manifest]
              /\ out' = NoOut
              /\ pc' = "request"
    /\ UNCHANGED <<session, enableCRC, input, pos, checker, start, nAttempts,
                   first, last, res, ctxDone>>

\* Variant: the completion is retried under the broad classifier.
CompleteClassifierBroad == "StatusCodeClassifier"

\* WithRetry(nil, ServerErrorClassifier{}) of CompleteMultipartUploadV2
CompleteClassifier == "ServerErrorClassifier"

CompleteMultipartUploadV2(valid, ps) ==
    ControlCall("CompleteMultipartUploadV2", valid, CompleteClassifier, ps,
                PartsToCompleteV2(ps))

BucketCompleteMultipartUpload(valid, ps) ==
    ControlCall("Bucket.CompleteMultipartUpload", valid, "none", ps,
                PartsToComplete(ps))

\* ------------------------------------------------------------------ abort
AbortMultipartUpload(valid) ==
    ControlCall("AbortMultipartUpload", valid, "ServerErrorClassifier", <<>>, <<>>)

BucketAbortMultipartUpload(valid) ==
    ControlCall("Bucket.AbortMultipartUpload", valid, "none", <<>>, <<>>)

IsComplete == op \in {"CompleteMultipartUploadV2", "Bucket.CompleteMultipartUpload"}
IsAbort == op \in {"AbortMultipartUpload", "Bucket.AbortMultipartUpload"}

\* The server answers the expected status (200 for a completion, 204 for an
\* abort) only for a session that exists, and the session ends with it.
ControlAttemptSucceeds ==
    /\ pc = "request"
    /\ IsComplete \/ IsAbort
    /\ session = "active"
    /\ session' = IF IsComplete THEN "completed" ELSE "aborted"
    /\ Attempted([from |-> 0, body |-> req.manifest, read |-> Len(req.manifest),
                  outcome |-> "ok"])
    /\ res' = [NoRes EXCEPT !.err = "nil"]
    /\ pc' = "responded"
    /\ UNCHANGED <<enableCRC, op, input, parts, pos, checker, start, req, out, ctxDone>>

ControlAttemptFails(kind) ==
    /\ pc = "request"
    /\ IsComplete \/ IsAbort
    /\ kind = "NotFound" <=> session # "active"
    /\ Attempted([from |-> 0, body |-> req.manifest, read |-> 0, outcome |-> kind])
    /\ AfterFailure(kind, 0)
    /\ UNCHANGED <<session, enableCRC, op, input, parts, start, req, out>>

\* if err != nil { return nil, err }; otherwise the output of the call.
ControlResult(r) == IF r.err # "nil" THEN Failed(r.err) ELSE [NoOut EXCEPT !.err = "nil"]

ControlReturn ==
    /\ pc = "responded"
    /\ IsComplete \/ IsAbort
    /\ out' = ControlResult(res)
    /\ pc' = "done"
    /\ UNCHANGED <<session, enableCRC, op, input, parts, pos, checker, start, req,
                   nAttempts, first, last, res, ctxDone>>

\* ----------------------------------------------------------- the caller
\* The caller takes the returned value; the next call starts afresh.
CallerContinues ==
    /\ pc = "done"
    /\ pc' = "idle"
    /\ op' = "none"
    /\ input' = NoInput
    /\ parts' = <<>>
    /\ pos' = 0
    /\ checker' = NilChecker
    /\ start' = 0
    /\ req' = NoReq
    /\ nAttempts' = 0
    /\ first' = NoAttempt
    /\ last' = NoAttempt
    /\ res' = NoRes
    /\ out' = NoOut
    /\ ctxDone' = 0
    /\ UNCHANGED <<session, enableCRC>>

\* ------------------------------------------------------- specification
\* Concurrent invocations, one per part.  inv[p] is what belongs to invocation
\* p whoever holds it (its input and source, its place in the call, the
\* response and the returned value); frame[f] holds the variables UploadPartV2
\* declares at lines 131-150 and 156: checker, start, onRetry, classifier.
Invocations == {1, 2}
NoFrame == [checker |-> NilChecker, start |-> 0, onRetry |-> FALSE, classifier |-> "none"]
NoInv == [pc |-> "idle", input |-> NoInput, pos |-> 0, fed |-> <<>>, nAttempts |-> 0,
          res |-> NoRes, out |-> NoOut]
   \* fed: the bytes this invocation has read from its own source since its
   \* accumulator was last seeded, which is what the accumulator of the
   \* invocation holds when the invocation runs alone.

Init ==
    /\ session = "active"
    /\ enableCRC \in BOOLEAN
    /\ op = "none"
    /\ pc = "idle"
    /\ input = NoInput
    /\ parts = <<>>
    /\ pos = 0
    /\ checker = NilChecker
    /\ start = 0
    /\ req = NoReq
    /\ nAttempts = 0
    /\ first = NoAttempt
    /\ last = NoAttempt
    /\ res = NoRes
    /\ out = NoOut
    /\ ctxDone = 0
    /\ openFiles = 0
    /\ viaFile = FALSE
    /\ conc = [inv |-> [p \in Invocations |-> NoInv],
               frame |-> [f \in Invocations |-> NoFrame]]

ValidUploadInputs == {in \in UploadPartV2Inputs : in.Content = "nil" => in.pos0 = 0}

Next ==
    \/ /\ pc = "idle"
       /\ \E in \in ValidUploadInputs \cup {NilInput} : UploadPartV2(in)
       /\ UNCHANGED <<fileVars, conc>>
    \/ /\ pc = "request"
       /\ \E etag \in ETags, hdr \in {"absent", "honest", "corrupt"} :
             UploadAttemptSucceeds(etag, hdr)
       /\ UNCHANGED <<fileVars, conc>>
    \/ /\ pc = "request"
       /\ \E kind \in FailureKinds, k \in 0..FileLen : UploadAttemptFails(kind, k)
       /\ UNCHANGED <<fileVars, conc>>
    \/ UploadPartV2Return /\ UNCHANGED <<fileVars, conc>>
    \/ /\ pc = "idle"
       /\ \E valid \in BOOLEAN, ps \in PartLists : CompleteMultipartUploadV2(valid, ps)
       /\ UNCHANGED <<fileVars, conc>>
    \/ /\ pc = "idle"
       /\ \E valid \in BOOLEAN, ps \in PartLists : BucketCompleteMultipartUpload(valid, ps)
       /\ UNCHANGED <<fileVars, conc>>
    \/ (\E valid \in BOOLEAN : AbortMultipartUpload(valid)) /\ UNCHANGED <<fileVars, conc>>
    \/ (\E valid \in BOOLEAN : BucketAbortMultipartUpload(valid)) /\ UNCHANGED <<fileVars, conc>>
    \/ ControlAttemptSucceeds /\ UNCHANGED <<fileVars, conc>>
    \/ (\E kind \in FailureKinds : ControlAttemptFails(kind)) /\ UNCHANGED <<fileVars, conc>>
    \/ ControlReturn /\ UNCHANGED <<fileVars, conc>>
    \/ CallerContinues /\ UNCHANGED <<fileVars, conc>>

Spec == Init /\ [][Next]_vars

\* ------------------------------------------------------ UploadPartFromFile
FromFileInputs ==
    [namesValid : BOOLEAN, PartNumber : UploadPartNumbers, UploadID : UploadIDs,
     Offset : 0..FileLen, PartSize : ContentLengths]

\* Lines 206-210: the UploadPartV2Input built around the opened file.
FileInput(in) ==
    [nil |-> FALSE, namesValid |-> in.namesValid, PartNumber |-> in.PartNumber,
     UploadID |-> in.UploadID, ContentLength |-> in.PartSize, Content |-> "seeker",
     pos0 |-> in.Offset]

\* Lines 196-210.  os.Open may fail (no handle is created); file.Seek may fail
\* (a FIFO); otherwise UploadPartV2 runs on the file.  No path closes the file.
UploadPartFromFile(in, opened, seeked) ==
    /\ pc = "idle"
    /\ openFiles < MaxOpenFiles
    /\ viaFile' = TRUE
    /\ IF ~opened
         THEN /\ op' = "UploadPartFromFile"
              /\ out' = Failed("OpenError")
              /\ pc' = "done"
              /\ openFiles' = openFiles
              /\ UNCHANGED <<session, enableCRC, input, parts, pos, checker, start, req,
                             nAttempts, first, last, res, ctxDone>>
       ELSE IF ~seeked
         THEN /\ op' = "UploadPartFromFile"
              /\ out' = Failed("SeekError")
              /\ pc' = "done"
              /\ openFiles' = openFiles + 1
              /\ UNCHANGED <<session, enableCRC, input, parts, pos, checker, start, req,
                             nAttempts, first, last, res, ctxDone>>
       ELSE /\ UploadPartV2(FileInput(in))
            /\ openFiles' = openFiles + 1

\* Lines 211-214: the error or the output of UploadPartV2, handed on as it is.
UploadPartFromFileReturn ==
    /\ viaFile
    /\ UploadPartV2Return
    /\ UNCHANGED fileVars

NextFile ==
    \/ /\ pc = "idle"
       /\ \E in \in FromFileInputs, opened \in BOOLEAN, seeked \in BOOLEAN :
             UploadPartFromFile(in, opened, seeked)
       /\ UNCHANGED conc
    \/ /\ pc = "request"
       /\ \E etag \in ETags, hdr \in {"absent", "honest", "corrupt"} :
             UploadAttemptSucceeds(etag, hdr)
       /\ UNCHANGED <<fileVars, conc>>
    \/ /\ pc = "request"
       /\ \E kind \in FailureKinds, k \in 0..FileLen : UploadAttemptFails(kind, k)
       /\ UNCHANGED <<fileVars, conc>>
    \/ UploadPartFromFileReturn /\ UNCHANGED conc
    \/ CallerContinues /\ viaFile' = FALSE /\ UNCHANGED <<openFiles, conc>>

SpecFile == Init /\ [][NextFile]_vars

\* ------------------------------------------- concurrent UploadPartV2 calls
\* Variant: the variables of lines 131-150 are package-level, one copy for all.
FrameShared(p) == 1

\* The frame that holds the local variables of invocation p: its own.
Frame(p) == p

seqVars == <<session, enableCRC, op, pc, input, parts, pos, checker, start, req,
             nAttempts, first, last, res, out, ctxDone, openFiles, viaFile>>

ConcInputs(p) ==
    {in \in ValidUploadInputs :
        /\ in.namesValid /\ in.PartNumber = p /\ in.UploadID = "u1"
        /\ in.ContentLength = 0 /\ in.Content \in {"seeker", "reader"}
        /\ in.pos0 \in {0, FileLen - 1}}

\* Lines 127-171 for an input that passes the checks.
ConcUploadPartV2(p, in) ==
    LET seeker == IsSeeker(in.Content)
        chk == MakeChecker(enableCRC)
    IN  /\ conc.inv[p].pc = "idle"
        /\ conc' = [conc EXCEPT
              !.inv[p] = [NoInv EXCEPT !.pc = "request", !.input = in, !.pos = in.pos0],
              !.frame[Frame(p)] =
                  [checker |-> IF seeker THEN SeekChecker(chk) ELSE chk,
                   start |-> IF seeker THEN in.pos0 ELSE 0,
                   onRetry |-> seeker,
                   classifier |-> SelectClassifier(seeker)]]
        /\ UNCHANGED seqVars

ConcAttemptSucceeds(p, etag, hdr) ==
    LET me == conc.inv[p]
        fr == conc.frame[Frame(p)]
        body == BodyAt(me.input.Content, me.input.ContentLength, me.pos)
        sum == CrcWrite(0, body)
    IN  /\ me.pc = "request"
        /\ conc' = [conc EXCEPT
              !.inv[p] = [me EXCEPT
                  !.pc = "responded",
                  !.pos = me.pos + Len(body),
                  !.fed = me.fed \o body,
                  !.nAttempts = me.nAttempts + 1,
                  !.res = [err |-> "nil", ETag |-> etag,
                           crc |-> IF hdr = "honest"
                                     THEN [present |-> TRUE, value |-> sum]
                                   ELSE [present |-> TRUE, value |-> sum + 1]]],
              !.frame[Frame(p)] = [fr EXCEPT !.checker = Feed(fr.checker, body)]]
        /\ UNCHANGED seqVars

ConcAttemptFails(p, kind, k) ==
    LET me == conc.inv[p]
        fr == conc.frame[Frame(p)]
        bytes == SubSeq(Data, me.pos + 1, me.pos + k)
        retry == Classify(fr.classifier, kind) /\ me.nAttempts + 1 < MaxAttempts
        rewind == retry /\ fr.onRetry
    IN  /\ me.pc = "request"
        /\ k <= ToSend(me.input.Content, me.input.ContentLength, me.pos)
        /\ conc' = [conc EXCEPT
              !.inv[p] = [me EXCEPT
                  !.pc = IF retry THEN "request" ELSE "responded",
                  !.pos = IF rewind THEN OnRetrySeek(fr.start, me.pos + k) ELSE me.pos + k,
                  !.fed = IF retry /\ IsSeeker(me.input.Content) THEN <<>>
                          ELSE me.fed \o bytes,
                  !.nAttempts = me.nAttempts + 1,
                  !.res = IF retry THEN me.res ELSE [NoRes EXCEPT !.err = kind]],
              !.frame[Frame(p)] = [fr EXCEPT
                  !.checker = IF rewind THEN SeekChecker(fr.checker)
                              ELSE Feed(fr.checker, bytes)]]
        /\ UNCHANGED seqVars

\* Lines 177-192.
ConcUploadPartV2Return(p) ==
    LET me == conc.inv[p]
        fr == conc.frame[Frame(p)]
    IN  /\ me.pc = "responded"
        /\ conc' = [conc EXCEPT
              !.inv[p] = [me EXCEPT !.pc = "done",
                                    !.out = UploadPartV2Result(me.input, me.res, fr.checker)]]
        /\ UNCHANGED seqVars

NextConc ==
    \/ \E p \in Invocations : \E in \in ConcInputs(p) : ConcUploadPartV2(p, in)
    \/ \E p \in Invocations, hdr \in {"honest", "corrupt"} :
          ConcAttemptSucceeds(p, "t1", hdr)
    \/ \E p \in Invocations, kind \in {"ServerFault", "Ambiguous", "Rejected"}, k \in 0..FileLen :
          ConcAttemptFails(p, kind, k)
    \/ \E p \in Invocations : ConcUploadPartV2Return(p)

SpecConc == Init /\ [][NextConc]_vars

\* ================================================================ claims
Sent == nAttempts > 0          \* the call has put a request on the network

DistinctNumbers(s) ==
    \A i, j \in 1..Len(s) : i # j => s[i].PartNumber # s[j].PartNumber

\* The ascending arrangement of a set of descriptors, built from the set alone.
RECURSIVE AscendingOf(_)
AscendingOf(S) ==
    IF S = {} THEN <<>>
    ELSE LET m == CHOOSE x \in S : \A y \in S : x.PartNumber <= y.PartNumber
         IN  <<m>> \o AscendingOf(S \ {m})

Count(s, d) == Cardinality({i \in 1..Len(s) : s[i] = d})

\* C1: for descriptors with pairwise distinct part numbers, the manifest that
\* CompleteMultipartUploadV2 and Bucket.CompleteMultipartUpload send is the
\* ascending arrangement of the set of descriptors: it depends on the set the
\* caller supplied and not on the order it was supplied in.
C1_ManifestIndependentOfOrder ==
    (IsComplete /\ Sent /\ DistinctNumbers(parts)) =>
        /\ last.body = AscendingOf({parts[i] : i \in 1..Len(parts)})
        /\ first.body = last.body

C1_Witness ==
    /\ op = "CompleteMultipartUploadV2"
    /\ Sent
    /\ parts = <<[PartNumber |-> 2, ETag |-> "t2"], [PartNumber |-> 1, ETag |-> "t1"],
                 [PartNumber |-> 3, ETag |-> "t1"]>>
    /\ last.body = <<[PartNumber |-> 1, ETag |-> "t1"], [PartNumber |-> 2, ETag |-> "t2"],
                     [PartNumber |-> 3, ETag |-> "t1"]>>

\* C2 as stated: every manifest CompleteMultipartUploadV2 sends is strictly
\* ascending by part number, for every list of parts.
C2_StrictlyAscendingAlways ==
    (op = "CompleteMultipartUploadV2" /\ Sent) =>
        \A i \in 1..(Len(last.body) - 1) :
            last.body[i].PartNumber < last.body[i + 1].PartNumber

\* C2 amended: every manifest CompleteMultipartUploadV2 sends is ascending by
\* part number (no part number is smaller than the one before it), for every
\* list of parts, and strictly ascending when the part numbers are distinct.
C2_Ascending ==
    (op = "CompleteMultipartUploadV2" /\ Sent) =>
        \A i \in 1..(Len(last.body) - 1) :
            /\ last.body[i].PartNumber <= last.body[i + 1].PartNumber
            /\ DistinctNumbers(parts) =>
                  last.body[i].PartNumber < last.body[i + 1].PartNumber

C2_Witness ==
    /\ op = "CompleteMultipartUploadV2"
    /\ Sent
    /\ Len(parts) = 3
    /\ parts[1].PartNumber = 2 /\ parts[2].PartNumber = 1 /\ parts[3].PartNumber = 2
    /\ last.body[1].PartNumber = 1
    /\ last.body[2].PartNumber = 2
    /\ last.body[3].PartNumber = 2

\* C3: the manifest CompleteMultipartUploadV2 sends holds the caller's
\* descriptors as a multiset: same length, and every (part number, entity
\* tag) pair occurs as often in the manifest as in the input.
C3_ManifestIsPermutation ==
    (op = "CompleteMultipartUploadV2" /\ Sent) =>
        /\ Len(last.body) = Len(parts)
        /\ \A d \in Descriptors : Count(last.body, d) = Count(parts, d)

C3_Witness ==
    /\ op = "CompleteMultipartUploadV2"
    /\ Sent
    /\ parts = <<[PartNumber |-> 2, ETag |-> "t1"], [PartNumber |-> 1, ETag |-> "t2"],
                 [PartNumber |-> 2, ETag |-> "t1"]>>
    /\ Count(last.body, [PartNumber |-> 2, ETag |-> "t1"]) = 2
    /\ Count(last.body, [PartNumber |-> 1, ETag |-> "t2"]) = 1

IsUpload == op = "UploadPartV2"

\* C4: in UploadPartV2 with a source that supports position reset, the
\* position is captured before the first attempt and restored before every
\* retry: each attempt starts reading at the captured position and offers the
\* same byte range as the first attempt, and between attempts the source
\* stands at the captured position.
C4_RetryResendsSameRange ==
    (IsUpload /\ req.onRetry) =>
        /\ start = input.pos0
        /\ pc = "request" => pos = start
        /\ Sent => /\ first.from = start
                   /\ last.from = first.from
                   /\ last.body = first.body

C4_Witness ==
    /\ IsUpload
    /\ req.onRetry
    /\ input.pos0 = 1
    /\ nAttempts = 3
    /\ first.read = 1
    /\ first.outcome = "Ambiguous"
    /\ last.outcome = "ok"
    /\ last.from = 1
    /\ last.body = first.body

\* C5: in UploadPartV2 the broad StatusCodeClassifier is used exactly when a
\* reset hook is installed; a source without position reset, or no content,
\* gets no hook and the narrow ServerErrorClassifier, and then a failure that
\* only the broad classifier retries ends the retry loop.
C5_BroadClassifierOnlyWithHook ==
    (IsUpload /\ pc \in {"request", "responded"}) =>
        /\ req.classifier = "StatusCodeClassifier" <=> req.onRetry
        /\ input.Content \in {"nil", "reader"} =>
              /\ ~req.onRetry
              /\ req.classifier = "ServerErrorClassifier"
        /\ (~req.onRetry /\ last.outcome = "Ambiguous") => pc = "responded"

C5_Witness ==
    /\ IsUpload
    /\ input.Content = "reader"
    /\ ~req.onRetry
    /\ nAttempts = 1
    /\ last.outcome = "Ambiguous"
    /\ pc = "responded"

\* C6: in UploadPartV2 with checksum checking enabled, when the transport
\* reports success with a checksum: a server checksum that differs from the
\* locally accumulated one makes the call fail with the integrity error and
\* no PartResult; an equal one makes the call succeed.
C6_ChecksumVerified ==
    (IsUpload /\ pc = "done" /\ enableCRC /\ res.err = "nil" /\ res.crc.present) =>
        /\ res.crc.value # checker.sum =>
              /\ out.err = "CrcCheckFailed"
              /\ out.ETag = "" /\ out.PartNumber = 0
        /\ res.crc.value = checker.sum =>
              /\ out.err = "nil"
              /\ out.HashCrc64ecma = res.crc.value

C6_Witness ==
    /\ IsUpload
    /\ pc = "done"
    /\ enableCRC
    /\ res.err = "nil"
    /\ res.crc.present
    /\ checker.sum = CrcWrite(0, last.body)
    /\ res.crc.value # checker.sum
    /\ out.err = "CrcCheckFailed"

\* C7 as stated: UploadPartV2 called with part number 0 or an empty upload ID
\* returns InputInvalidClientError and makes no network attempt.
C7_InputInvalidAlways ==
    (IsUpload /\ ~input.nil /\ pc = "done"
       /\ (input.PartNumber = 0 \/ input.UploadID = "")) =>
        /\ out.err = "InputInvalidClientError"
        /\ ~Sent

\* C7 amended: UploadPartV2 called with part number 0 or an empty upload ID
\* makes no network attempt; it returns InputInvalidClientError when the
\* bucket and key names are valid, and the error of the name check, which
\* runs first, when they are not.
C7_InputInvalidAfterNameCheck ==
    (IsUpload /\ ~input.nil /\ (input.PartNumber = 0 \/ input.UploadID = "")) =>
        /\ pc = "done"
        /\ ~Sent
        /\ out.err = IF input.namesValid THEN "InputInvalidClientError"
                     ELSE "InvalidName"

C7_Witness ==
    /\ IsUpload
    /\ pc = "done"
    /\ input.namesValid
    /\ input.PartNumber = 1
    /\ input.UploadID = ""
    /\ input.Content = "seeker"
    /\ out.err = "InputInvalidClientError"
    /\ ~Sent

\* C8 as stated: UploadPartV2 called with a zero or negative declared content
\* length fails at once, in its checks of the caller's input (names, part
\* number, upload ID, content), and makes no network attempt.
PreflightErrors == {"InvalidName", "InputInvalidClientError", "SeekError"}

C8_NonPositiveLengthRejected ==
    (IsUpload /\ input.ContentLength <= 0 /\ input.PartNumber > 0) =>
        /\ ~Sent
        /\ pc = "done" => out.err \in PreflightErrors

\* C9 as stated: AbortMultipartUpload on a session that no longer exists on
\* the server (the server answers not found) returns success.
C9_AbortOfMissingSessionSucceeds ==
    (IsAbort /\ pc = "done" /\ session # "active" /\ last.outcome = "NotFound") =>
        out.err = "nil"

\* C10: when the context passed to UploadPartV2 is cancelled during an
\* attempt, that attempt is the last one of the call and the call ends with
\* the cancellation error, under either classifier.
C10_CancelledNotRetried ==
    (IsUpload /\ ctxDone # 0) =>
        /\ nAttempts = ctxDone
        /\ last.outcome = "Cancelled"
        /\ pc \in {"responded", "done"}
        /\ res.err = "Cancelled"
        /\ pc = "done" => out.err = "Cancelled"

C10_Witness ==
    /\ IsUpload
    /\ req.classifier = "StatusCodeClassifier"
    /\ first.outcome = "ServerFault"
    /\ ctxDone = 2
    /\ nAttempts = 2
    /\ pc = "done"
    /\ out.err = "Cancelled"

\* C11 as stated: when the server rejects the manifest of
\* CompleteMultipartUploadV2, exactly one network attempt was made.
C11_RejectionAfterOneAttempt ==
    (op = "CompleteMultipartUploadV2" /\ last.outcome = "Rejected") => nAttempts = 1

\* C11 amended: CompleteMultipartUploadV2 submits the manifest with no reset
\* hook and the ServerErrorClassifier; an attempt the server rejects is the
\* last attempt of the call (the only one when the rejection answers the first
\* attempt) and the server's error is returned unchanged.
C11_RejectionNotRetried ==
    (op = "CompleteMultipartUploadV2" /\ (pc \in {"request", "responded"} \/ Sent)) =>
        /\ ~req.onRetry
        /\ req.classifier = "ServerErrorClassifier"
        /\ last.outcome = "Rejected" =>
              /\ pc \in {"responded", "done"}
              /\ res.err = "Rejected"
              /\ first.outcome = "Rejected" => nAttempts = 1
              /\ pc = "done" => out.err = "Rejected"

C11_Witness ==
    /\ op = "CompleteMultipartUploadV2"
    /\ Len(parts) = 2
    /\ nAttempts = 1
    /\ last.outcome = "Rejected"
    /\ pc = "done"
    /\ out.err = "Rejected"

\* C12: a successful UploadPartV2 returns one PartResult that carries the
\* request's part number, the entity tag the server returned and the checksum
\* the server reported for the part.
C12_PartResultEchoesServer ==
    (IsUpload /\ pc = "done" /\ out.err = "nil") =>
        /\ last.outcome = "ok"
        /\ res.err = "nil"
        /\ out.PartNumber = input.PartNumber
        /\ out.ETag = res.ETag
        /\ res.crc.present => out.HashCrc64ecma = res.crc.value

C12_Witness ==
    /\ IsUpload
    /\ pc = "done"
    /\ out.err = "nil"
    /\ enableCRC
    /\ input.PartNumber = 2
    /\ res.ETag = "t2"
    /\ res.crc.present
    /\ res.crc.value = CrcWrite(0, Data)
    /\ out = [err |-> "nil", PartNumber |-> 2, ETag |-> "t2",
              HashCrc64ecma |-> CrcWrite(0, Data)]

\* C13 as stated: in UploadPartV2 the accumulator holds the seed at the start
\* of every retry attempt, and after a successful attempt the value compared
\* with the server's checksum covers the bytes of that attempt alone.
C13_AccumulatorFreshPerAttempt ==
    (IsUpload /\ enableCRC) =>
        /\ (pc = "request" /\ Sent) => checker.sum = NewCRC.sum
        /\ (pc = "responded" /\ res.err = "nil") => checker.sum = CrcWrite(0, last.body)

\* C14: a checksum mismatch in UploadPartV2 is found after the retry loop has
\* returned a successful response and ends the call with the integrity error;
\* the retry loop is never entered again after a successful attempt.
C14_MismatchNotRetried ==
    IsUpload =>
        /\ out.err = "CrcCheckFailed" =>
              /\ pc = "done"
              /\ last.outcome = "ok"
              /\ res.err = "nil"
        /\ (pc = "request" /\ Sent) => last.outcome \in {"ServerFault", "Ambiguous"}

C14_Witness ==
    /\ IsUpload
    /\ pc = "done"
    /\ out.err = "CrcCheckFailed"
    /\ nAttempts = 2
    /\ first.outcome = "ServerFault"
    /\ last.outcome = "ok"

\* C15: with checksum checking disabled, UploadPartV2 attaches no accumulator
\* and returns no integrity error, whatever checksum the server reports
\* (absent or different included): a successful response is a successful call.
C15_NoVerificationWithoutCRC ==
    (IsUpload /\ ~enableCRC) =>
        /\ checker.nil
        /\ out.err # "CrcCheckFailed"
        /\ (pc = "done" /\ res.err = "nil") => out.err = "nil"

C15_Witness ==
    /\ IsUpload
    /\ ~enableCRC
    /\ pc = "done"
    /\ res.err = "nil"
    /\ res.crc.present
    /\ res.crc.value # CrcWrite(0, last.body)
    /\ last.body # <<>>
    /\ out.err = "nil"

\* C16 as stated: when the caller gives no content length and the size of the
\* source is resolved, the content length declared to the transport is the
\* resolved size.
C16_DeclaredLengthIsResolved ==
    (IsUpload /\ pc = "request" /\ input.ContentLength = 0 /\ req.contentLength >= 0) =>
        req.declaredLength = req.contentLength

\* C18 as stated: every part request UploadPartV2 puts on the network carries
\* a positive part number.
C18_PositivePartNumberOnWire ==
    (IsUpload /\ Sent) => input.PartNumber > 0

\* C20 as stated: UploadPartV2 called with a nil input returns
\* InputInvalidClientError and makes no network attempt.
C20_NilInputRejected ==
    (IsUpload /\ input.nil) =>
        /\ pc = "done"
        /\ out.err = "InputInvalidClientError"
        /\ ~Sent

\* C19 as stated: whenever UploadPartFromFile has returned, the file it opened
\* is closed: no handle opened by the pipeline is left open.
C19_FileClosedOnReturn ==
    pc \in {"idle", "done"} => openFiles = 0

\* C17: concurrent UploadPartV2 invocations for different parts share no
\* mutable state: under every interleaving the accumulator, the captured start
\* position, the hook and the classifier an invocation works with are the ones
\* it has when it runs alone (they depend on its own input and on the bytes
\* read from its own source), and so are its verification outcome and its
\* PartResult.
C17_InvocationsIndependent ==
    \A p \in Invocations :
        LET me == conc.inv[p]
            fr == conc.frame[Frame(p)]
            alone == IF enableCRC THEN [nil |-> FALSE, sum |-> CrcWrite(0, me.fed)]
                     ELSE NilChecker
        IN  me.pc # "idle" =>
              /\ fr.checker = alone
              /\ fr.onRetry = IsSeeker(me.input.Content)
              /\ fr.start = (IF IsSeeker(me.input.Content) THEN me.input.pos0 ELSE 0)
              /\ fr.classifier = SelectClassifier(IsSeeker(me.input.Content))
              /\ me.pc = "done" =>
                    /\ me.out = UploadPartV2Result(me.input, me.res, alone)
                    /\ me.out.err = "nil" => me.out.PartNumber = p

C17_Witness ==
    /\ enableCRC
    /\ conc.inv[1].pc = "done"
    /\ conc.inv[2].pc = "done"
    /\ conc.inv[1].input.Content = "seeker"
    /\ conc.inv[2].input.Content = "reader"
    /\ conc.inv[1].nAttempts = 2
    /\ conc.inv[2].nAttempts = 2
    /\ conc.inv[1].out.err = "nil"
    /\ conc.inv[1].out.PartNumber = 1
    /\ conc.inv[2].out.err = "CrcCheckFailed"

====
